---- MODULE Spec2Model ----
(***************************************************************************)
(* Webhook idempotency-key extraction (lib/webhooks/provider-utils.ts) and *)
(* the memory profiler route (app/api/profiler/route.ts).                  *)
(*                                                                         *)
(* Decoded payloads are JavaScript values.  A value is a record tagged by  *)
(* its kind k; objects keep their properties as a sequence of <<key,       *)
(* value>> pairs, arrays keep their elements as a sequence.  A thrown      *)
(* TypeError is the distinguished outcome TypeError.                       *)
(***************************************************************************)
EXTENDS Integers, Sequences, FiniteSets

VARIABLES provider, body, result, lookedUp, invoked, prevBody, prevResult,
          memorySamples, pushes, requests

extractVars == <<provider, body, result, lookedUp, invoked, prevBody, prevResult>>
profilerVars == <<memorySamples, pushes, requests>>
vars == <<provider, body, result, lookedUp, invoked, prevBody, prevResult,
          memorySamples, pushes, requests>>

(***************************************************************************)
(* JavaScript values                                                       *)
(***************************************************************************)
Undefined == [k |-> "undefined"]
Null == [k |-> "null"]
Bool(b) == [k |-> "boolean", b |-> b]
Num(n) == [k |-> "number", n |-> n]
Str(s) == [k |-> "string", s |-> s]
Arr(e) == [k |-> "array", elems |-> e]
Obj(f) == [k |-> "object", fields |-> f]

\* The outcome of a call that throws a TypeError.
TypeError == [k |-> "TypeError"]

\* No delivery has been made yet.
NoDelivery == [k |-> "none"]

\* typeof v
TypeOf(v) ==
  CASE v.k = "undefined" -> "undefined"
    [] v.k = "boolean" -> "boolean"
    [] v.k = "number" -> "number"
    [] v.k = "string" -> "string"
    [] OTHER -> "object"

\* The truthiness test of `if (v)`, `v && ...`, `v || ...`, `!v`.
ToBoolean(v) ==
  CASE v.k = "undefined" -> FALSE
    [] v.k = "null" -> FALSE
    [] v.k = "boolean" -> v.b
    [] v.k = "number" -> v.n # 0
    [] v.k = "string" -> v.s # ""
    [] OTHER -> TRUE

IsNullish(v) == v.k \in {"undefined", "null"}

IsArray(v) == v.k = "array"

HasOwn(f, key) == \E i \in 1..Len(f) : f[i][1] = key

\* v.key : a TypeError on null and undefined, undefined for a property the
\* value does not have.
Get(v, key) ==
  IF IsNullish(v) THEN TypeError
  ELSE IF v.k = "object" /\ HasOwn(v.fields, key)
       THEN v.fields[CHOOSE i \in 1..Len(v.fields) : v.fields[i][1] = key][2]
       ELSE Undefined

\* v?.key
OptGet(v, key) == IF IsNullish(v) THEN Undefined ELSE Get(v, key)

\* v[0] of an array
First(v) == IF Len(v.elems) > 0 THEN v.elems[1] ELSE Undefined

\* a || b
JsOr(a, b) == IF ToBoolean(a) THEN a ELSE b

Digit == <<"0", "1", "2", "3", "4", "5", "6", "7", "8", "9">>

RECURSIVE NumberToString(_)
NumberToString(n) ==
  IF n < 10 THEN Digit[n + 1]
  ELSE NumberToString(n \div 10) \o Digit[(n % 10) + 1]

RECURSIVE JsString(_)
RECURSIVE Join(_)
\* Array.prototype.join(",") : null and undefined elements give "".
Join(e) ==
  IF Len(e) = 0 THEN ""
  ELSE LET h == IF IsNullish(e[1]) THEN "" ELSE JsString(e[1])
       IN IF Len(e) = 1 THEN h ELSE h \o "," \o Join(Tail(e))

\* String(v) and the conversion of `${v}`.
JsString(v) ==
  CASE v.k = "undefined" -> "undefined"
    [] v.k = "null" -> "null"
    [] v.k = "boolean" -> (IF v.b THEN "true" ELSE "false")
    [] v.k = "number" -> NumberToString(v.n)
    [] v.k = "string" -> v.s
    [] v.k = "array" -> Join(v.elems)
    [] OTHER -> "[object Object]"

\* `${a}:${b}`
Template(a, b) == Str(JsString(a) \o ":" \o JsString(b))

(***************************************************************************)
(* The extraction rules                                                    *)
(***************************************************************************)
\* The logger calls read body.event?.type, body.type and Object.keys(body || {})
\* of a truthy object: none of them throws and none changes the result.
extractSlackIdentifier(b) ==
  IF ToBoolean(Get(b, "event_id")) THEN Get(b, "event_id") ELSE Null

\* The twilio rule falling through to a third field, SmsSid.
extractTwilioIdentifier_ReadsSmsSid(b) ==
  JsOr(JsOr(JsOr(Get(b, "MessageSid"), Get(b, "CallSid")), Get(b, "SmsSid")), Null)

\* The twilio rule with its candidates in the other order.
extractTwilioIdentifier_CallSidFirst(b) ==
  JsOr(JsOr(Get(b, "CallSid"), Get(b, "MessageSid")), Null)

extractTwilioIdentifier(b) ==
  JsOr(JsOr(Get(b, "MessageSid"), Get(b, "CallSid")), Null)

\* The stripe rule without its discriminator test.
extractStripeIdentifier_AnyObject(b) ==
  IF ToBoolean(Get(b, "id")) THEN Get(b, "id") ELSE Null

extractStripeIdentifier(b) ==
  IF ToBoolean(Get(b, "id")) /\ Get(b, "object") = Str("event")
  THEN Get(b, "id")
  ELSE Null

extractHubSpotIdentifier(b) ==
  IF IsArray(b) /\ Len(b.elems) > 0 /\ ToBoolean(OptGet(First(b), "eventId"))
  THEN Str(JsString(Get(First(b), "eventId")))
  ELSE Null

extractLinearIdentifier(b) ==
  IF ToBoolean(Get(b, "action")) /\ ToBoolean(OptGet(Get(b, "data"), "id"))
  THEN Template(Get(b, "action"), Get(Get(b, "data"), "id"))
  ELSE Null

extractJiraIdentifier(b) ==
  LET id == JsOr(OptGet(Get(b, "issue"), "id"), OptGet(Get(b, "project"), "id"))
  IN IF ToBoolean(Get(b, "webhookEvent")) /\ ToBoolean(id)
     THEN Template(Get(b, "webhookEvent"), id)
     ELSE Null

extractMicrosoftTeamsIdentifier(b) ==
  IF ToBoolean(Get(b, "value")) /\ IsArray(Get(b, "value"))
       /\ Len(Get(b, "value").elems) > 0
  THEN LET notification == First(Get(b, "value"))
       IN IF Get(notification, "subscriptionId") = TypeError THEN TypeError
          ELSE IF ToBoolean(Get(notification, "subscriptionId"))
                    /\ ToBoolean(OptGet(Get(notification, "resourceData"), "id"))
               THEN Template(Get(notification, "subscriptionId"),
                             Get(Get(notification, "resourceData"), "id"))
               ELSE Null
  ELSE Null

extractAirtableIdentifier(b) ==
  IF ToBoolean(Get(b, "cursor")) /\ TypeOf(Get(b, "cursor")) = "string"
  THEN Get(b, "cursor")
  ELSE Null

\* The keys of the PROVIDER_EXTRACTORS object literal.
RegisteredProviders ==
  {"slack", "twilio", "twilio_voice", "stripe", "hubspot", "linear", "jira",
   "microsoft-teams", "airtable"}

\* PROVIDER_EXTRACTORS[name] : the table's own entry, else what the object
\* literal inherits from Object.prototype, else undefined.
PROVIDER_EXTRACTORS(name) ==
  CASE name = "slack" -> "extractSlackIdentifier"
    [] name \in {"twilio", "twilio_voice"} -> "extractTwilioIdentifier"
    [] name = "stripe" -> "extractStripeIdentifier"
    [] name = "hubspot" -> "extractHubSpotIdentifier"
    [] name = "linear" -> "extractLinearIdentifier"
    [] name = "jira" -> "extractJiraIdentifier"
    [] name = "microsoft-teams" -> "extractMicrosoftTeamsIdentifier"
    [] name = "airtable" -> "extractAirtableIdentifier"
    [] name = "constructor" -> "Object"
    [] name = "toString" -> "Object.prototype.toString"
    [] name = "hasOwnProperty" -> "Object.prototype.hasOwnProperty"
    [] name = "__proto__" -> "Object.prototype"
    [] OTHER -> "undefined"

\* extractor(body) for a truthy extractor, called with no receiver.
CallExtractor(extractor, b) ==
  CASE extractor = "extractSlackIdentifier" -> extractSlackIdentifier(b)
    [] extractor = "extractTwilioIdentifier" -> extractTwilioIdentifier(b)
    [] extractor = "extractStripeIdentifier" -> extractStripeIdentifier(b)
    [] extractor = "extractHubSpotIdentifier" -> extractHubSpotIdentifier(b)
    [] extractor = "extractLinearIdentifier" -> extractLinearIdentifier(b)
    [] extractor = "extractJiraIdentifier" -> extractJiraIdentifier(b)
    [] extractor = "extractMicrosoftTeamsIdentifier" ->
         extractMicrosoftTeamsIdentifier(b)
    [] extractor = "extractAirtableIdentifier" -> extractAirtableIdentifier(b)
    [] extractor = "Object" -> b
    [] extractor = "Object.prototype.toString" -> Str("[object Undefined]")
    [] OTHER -> TypeError

\* The guard of the early return: !body || typeof body !== 'object'.
EarlyReturn(b) == ~ToBoolean(b) \/ TypeOf(b) # "object"

extractProviderIdentifierFromBody(name, b) ==
  IF EarlyReturn(b) THEN Null
  ELSE LET extractor == PROVIDER_EXTRACTORS(name)
       IN IF extractor # "undefined" THEN CallExtractor(extractor, b) ELSE Null

(***************************************************************************)
(* Deliveries: the payloads an endpoint receives                           *)
(***************************************************************************)
\* Numbers a payload carries are 0..MaxNum and 42.
MaxNum == 1

\* The longest batch (top-level or nested sequence of notifications).
MaxBatch == 2

\* A property the payload does not carry.
Absent == [k |-> "absent"]

\* The object with the given <<key, value>> properties, absent ones left out.
MkObj(pairs) == Obj(SelectSeq(pairs, LAMBDA p : p[2] # Absent))

Nums == (0..MaxNum) \cup {42}

FieldValues ==
  {Null, Bool(FALSE), Bool(TRUE), Arr(<<>>), Obj(<<>>)}
    \cup {Num(n) : n \in Nums}
    \cup {Str(s) : s \in {"", "a", "a:b", "b:c", "c"}}

IdValues == {Absent, Null, Str(""), Str("a"), Str("c"), Num(0), Num(42)}

\* Sequences of at most MaxBatch elements, the first from H and the rest from T.
Batches(H, T) ==
  {<<>>} \cup UNION {{<<h>> \o t : h \in H, t \in [1..(n - 1) -> T]} : n \in 1..MaxBatch}

NonStructured ==
  {Undefined, Null, Str(""), Str("a"), Num(0), Num(1), Bool(FALSE), Bool(TRUE)}

GenericPayloads ==
  NonStructured \cup {Obj(<<>>), Arr(<<>>), Obj(<< <<"other", Str("a")>> >>)}

SlackPayloads ==
  {MkObj(<< <<"event_id", v>>, <<"type", x[1]>>, <<"event", x[2]>> >>) :
     v \in FieldValues \cup {Absent},
     x \in {<<Absent, Absent>>,
            <<Str("event_callback"), Obj(<< <<"type", Str("message")>> >>)>>}}

TwilioPayloads ==
  {MkObj(<< <<"MessageSid", m>>, <<"CallSid", c>>, <<"SmsSid", x>> >>) :
     m \in IdValues, c \in IdValues \ {Num(42)}, x \in {Absent}}
  \cup
  {MkObj(<< <<"MessageSid", m>>, <<"CallSid", c>>, <<"SmsSid", Str("s")>> >>) :
     m \in {Absent, Str("a")}, c \in {Absent, Str("c")}}

StripePayloads ==
  {MkObj(<< <<"id", i>>, <<"object", o>>, <<"type", x>> >>) :
     i \in IdValues,
     o \in {Absent, Null, Str("event"), Str("charge")},
     x \in {Absent}}
  \cup
  {MkObj(<< <<"id", i>>, <<"object", Str("event")>>, <<"type", Str("paid")>> >>) :
     i \in {Absent, Str("a")}}

HubSpotFirst ==
  {Null, Num(1), Obj(<<>>)}
    \cup {Obj(<< <<"eventId", v>> >>) : v \in FieldValues \ {Str("a:b"), Str("b:c"), Bool(FALSE), Bool(TRUE)}}

HubSpotRest == {Obj(<< <<"eventId", Num(1)>> >>), Obj(<< <<"eventId", Str("a")>> >>)}

HubSpotPayloads ==
  {Arr(e) : e \in Batches(HubSpotFirst, HubSpotRest)}
    \cup {Obj(<< <<"eventId", Num(42)>> >>)}

LinearPayloads ==
  {MkObj(<< <<"action", a>>, <<"data", d>> >>) :
     a \in {Absent, Str(""), Str("a"), Str("a:b"), Num(1)},
     d \in {Absent, Null, Str("c"), Obj(<<>>)}
            \cup {Obj(<< <<"id", v>> >>) :
                    v \in {Null, Str(""), Str("c"), Str("b:c"), Num(0), Num(1)}}}

JiraPayloads ==
  {MkObj(<< <<"webhookEvent", w>>, <<"issue", i>>, <<"project", p>> >>) :
     w \in {Absent, Str("a"), Str("a:b")},
     i \in {Absent, Null, Obj(<< <<"id", Str("")>> >>),
            Obj(<< <<"id", Str("c")>> >>), Obj(<< <<"id", Str("b:c")>> >>)},
     p \in {Absent, Null, Obj(<< <<"id", Str("c")>> >>),
            Obj(<< <<"id", Str("b:c")>> >>)}}

TeamsFirst ==
  {Null, Num(1), Obj(<<>>)}
    \cup {MkObj(<< <<"subscriptionId", s>>, <<"resourceData", r>> >>) :
            s \in {Absent, Str(""), Str("a"), Str("a:b")},
            r \in {Absent, Null}
                   \cup {Obj(<< <<"id", v>> >>) : v \in {Str(""), Str("c"), Str("b:c")}}}

TeamsRest == {Null, MkObj(<< <<"subscriptionId", Str("a")>>,
                            <<"resourceData", Obj(<< <<"id", Str("c")>> >>)>> >>)}

TeamsPayloads ==
  {MkObj(<< <<"value", v>> >>) :
     v \in {Null, Str("a"), Num(1)} \cup {Arr(e) : e \in Batches(TeamsFirst, TeamsRest)}}

AirtablePayloads ==
  {MkObj(<< <<"cursor", v>>, <<"base", x>> >>) :
     v \in FieldValues \cup {Absent}, x \in {Absent, Str("app1")}}

OtherPayloads ==
  {Obj(<< <<"id", Str("a")>>, <<"object", Str("event")>> >>),
   Obj(<< <<"event_id", Str("a")>> >>),
   Arr(<< Obj(<< <<"eventId", Num(42)>> >>) >>)}

\* Names no entry of the table is registered under; some of them are
\* properties every object inherits.
UnregisteredProviders ==
  {"github", "", "constructor", "toString", "hasOwnProperty", "__proto__"}

ProviderNames == RegisteredProviders \cup UnregisteredProviders

\* The payloads delivered to an endpoint configured for the provider name.
PayloadsFor(name) ==
  GenericPayloads \cup
  (CASE name = "slack" -> SlackPayloads
     [] name \in {"twilio", "twilio_voice"} -> TwilioPayloads
     [] name = "stripe" -> StripePayloads
     [] name = "hubspot" -> HubSpotPayloads
     [] name = "linear" -> LinearPayloads
     [] name = "jira" -> JiraPayloads
     [] name = "microsoft-teams" -> TeamsPayloads
     [] name = "airtable" -> AirtablePayloads
     [] OTHER -> OtherPayloads)

(***************************************************************************)
(* The endpoint: one provider name, a stream of deliveries                 *)
(***************************************************************************)
ExtractInit ==
  /\ provider \in ProviderNames
  /\ body = NoDelivery
  /\ result = NoDelivery
  /\ lookedUp = FALSE
  /\ invoked = "none"
  /\ prevBody = NoDelivery
  /\ prevResult = NoDelivery

\* A delivery arrives and extractProviderIdentifierFromBody(provider, b) runs;
\* the previous delivery and its result are kept for comparison.
Deliver(b) ==
  /\ body' = b
  /\ result' = extractProviderIdentifierFromBody(provider, b)
  /\ lookedUp' = ~EarlyReturn(b)
  /\ invoked' = IF EarlyReturn(b) \/ PROVIDER_EXTRACTORS(provider) = "undefined"
                THEN "none"
                ELSE PROVIDER_EXTRACTORS(provider)
  /\ prevBody' = body
  /\ prevResult' = result
  /\ UNCHANGED <<provider, memorySamples, pushes, requests>>

(***************************************************************************)
(* The profiler route.  A handler runs without interruption between two    *)
(* awaits; requests in flight interleave at their awaits.                  *)
(***************************************************************************)
MAX_SAMPLES == 100

\* Requests in flight at once.
MaxInFlight == 2

\* Samples ever appended.
MaxPushes == 102

Slots == 1..MaxInFlight

IdleSlot == [method |-> "none", pc |-> "idle", action |-> "none"]

ProfilerIdle ==
  /\ memorySamples = <<>>
  /\ pushes = 0
  /\ requests = [i \in Slots |-> IdleSlot]

\* A request reaches its handler.
Arrive(i, m) ==
  /\ requests[i].pc = "idle"
  /\ requests' = [requests EXCEPT ![i] = [method |-> m, pc |-> "auth", action |-> "none"]]
  /\ UNCHANGED <<memorySamples, pushes>>
  /\ UNCHANGED extractVars

\* checkInternalApiKey fails: the handler answers 401.
Unauthorized(i) ==
  /\ requests[i].pc = "auth"
  /\ requests' = [requests EXCEPT ![i] = IdleSlot]
  /\ UNCHANGED <<memorySamples, pushes>>
  /\ UNCHANGED extractVars

\* GET passes the key check and suspends at `await import('v8')`.
GetAuthorized(i) ==
  /\ requests[i].pc = "auth"
  /\ requests[i].method = "GET"
  /\ requests' = [requests EXCEPT ![i].pc = "import"]
  /\ UNCHANGED <<memorySamples, pushes>>
  /\ UNCHANGED extractVars

\* The push without the trim that follows it.
PushSample_NoShift(samples, sample) == Append(samples, sample)

\* memorySamples.push(...) followed by the shift of the oldest sample.
PushSample(samples, sample) ==
  LET pushed == Append(samples, sample)
  IN IF Len(pushed) > MAX_SAMPLES THEN Tail(pushed) ELSE pushed

\* GET resumes: it takes the sample, trims the list and answers.
GetSample(i) ==
  /\ requests[i].pc = "import"
  /\ pushes < MaxPushes
  /\ pushes' = pushes + 1
  /\ memorySamples' = PushSample(memorySamples, [timestamp |-> pushes + 1])
  /\ requests' = [requests EXCEPT ![i] = IdleSlot]
  /\ UNCHANGED extractVars

\* POST passes the key check and suspends at `await req.json()`; the body
\* names the action ('snapshot' when it names none).
PostAuthorized(i, a) ==
  /\ requests[i].pc = "auth"
  /\ requests[i].method = "POST"
  /\ requests' = [requests EXCEPT ![i].pc = "json", ![i].action = a]
  /\ UNCHANGED <<memorySamples, pushes>>
  /\ UNCHANGED extractVars

\* POST resumes with the parsed body and branches on the action.
PostAction(i) ==
  /\ requests[i].pc = "json"
  /\ requests' = [requests EXCEPT ![i] =
                    IF requests[i].action = "snapshot"
                    THEN [requests[i] EXCEPT !.pc = "snapshot"]
                    ELSE IdleSlot]
  /\ memorySamples' = IF requests[i].action = "reset" THEN <<>> ELSE memorySamples
  /\ UNCHANGED pushes
  /\ UNCHANGED extractVars

\* The snapshot branch resumes after its imports, writes the file and answers.
PostSnapshot(i) ==
  /\ requests[i].pc = "snapshot"
  /\ requests' = [requests EXCEPT ![i] = IdleSlot]
  /\ UNCHANGED <<memorySamples, pushes>>
  /\ UNCHANGED extractVars

Init == ExtractInit /\ ProfilerIdle

Next == \E b \in PayloadsFor(provider) : Deliver(b)

Spec == Init /\ [][Next]_vars

ProfilerNext ==
  \E i \in Slots :
    \/ \E m \in {"GET", "POST"} : Arrive(i, m)
    \/ Unauthorized(i)
    \/ GetAuthorized(i)
    \/ GetSample(i)
    \/ \E a \in {"snapshot", "reset", "other"} : PostAuthorized(i, a)
    \/ PostAction(i)
    \/ PostSnapshot(i)

ProfilerInit == provider = "slack" /\ ExtractInit /\ ProfilerIdle

SpecProfiler == ProfilerInit /\ [][ProfilerNext]_vars

(***************************************************************************)
(* Properties                                                              *)
(***************************************************************************)
Delivered == body # NoDelivery

Retried == prevBody # NoDelivery

\* body.key as a rule reads it; a payload the entry point turns away has no
\* readable field.
Field(b, key) == IF EarlyReturn(b) THEN Undefined ELSE Get(b, key)

\* Absent, null and the empty string are "not present".
Present(v) == v \notin {Undefined, Null, Str("")}

\* The values JavaScript treats as false among those a payload carries.
Falsy == {Undefined, Null, Str(""), Num(0), Bool(FALSE)}

IsEmptyPayload(b) == b \in {Obj(<<>>), Arr(<<>>)}

\* The first element of a top-level batch, undefined when there is none.
Leading(b) == IF ~EarlyReturn(b) /\ IsArray(b) THEN First(b) ELSE Undefined

\* The first notification of body.value, undefined when there is none.
LeadingNotification(b) ==
  IF IsArray(Field(b, "value")) THEN First(Field(b, "value")) ELSE Undefined

\* The fields the provider's rule reads, as the payload carries them.
RelevantFields(name, b) ==
  CASE name = "slack" -> <<Field(b, "event_id")>>
    [] name \in {"twilio", "twilio_voice"} ->
         <<Field(b, "MessageSid"), Field(b, "CallSid")>>
    [] name = "stripe" -> <<Field(b, "id"), Field(b, "object")>>
    [] name = "hubspot" -> <<OptGet(Leading(b), "eventId")>>
    [] name = "linear" ->
         <<Field(b, "action"), OptGet(Field(b, "data"), "id")>>
    [] name = "jira" ->
         <<Field(b, "webhookEvent"), OptGet(Field(b, "issue"), "id"),
           OptGet(Field(b, "project"), "id")>>
    [] name = "microsoft-teams" ->
         <<Bool(IsArray(Field(b, "value")) /\ Len(Field(b, "value").elems) > 0),
           Bool(IsNullish(LeadingNotification(b))),
           OptGet(LeadingNotification(b), "subscriptionId"),
           OptGet(OptGet(LeadingNotification(b), "resourceData"), "id")>>
    [] name = "airtable" -> <<Field(b, "cursor")>>
    [] OTHER -> <<>>

\* The pair a composite rule joins with ':'.
CompositePair(name, b) ==
  CASE name = "linear" -> <<Field(b, "action"), OptGet(Field(b, "data"), "id")>>
    [] name = "jira" ->
         <<Field(b, "webhookEvent"),
           JsOr(OptGet(Field(b, "issue"), "id"), OptGet(Field(b, "project"), "id"))>>
    [] OTHER ->
         <<OptGet(LeadingNotification(b), "subscriptionId"),
           OptGet(OptGet(LeadingNotification(b), "resourceData"), "id")>>

YieldsIdentifier(r) == r \notin {Null, TypeError, NoDelivery}

\* C1: for a provider name that is not a registered key, every payload yields
\* Unavailable (null), never an identifier and never an error.
C1_UnregisteredIsUnavailable ==
  (Delivered /\ provider \notin RegisteredProviders) => result = Null

\* C2: for a registered provider the extraction call returns for every
\* payload, however malformed; it never throws.
C2_RegisteredNeverThrows ==
  (Delivered /\ provider \in RegisteredProviders) => result # TypeError

\* C3: the value returned is null or a non-empty string, for every provider
\* name and payload.
C3_NullOrNonEmptyString ==
  Delivered => (result = Null \/ (result.k = "string" /\ result.s # ""))

\* C4: for a registered provider, two deliveries whose payloads agree on the
\* fields the rule reads have the same result, whatever else they carry and
\* whatever was delivered before.
C4_SameRelevantFieldsSameResult ==
  (/\ provider \in RegisteredProviders
   /\ Retried
   /\ RelevantFields(provider, body) = RelevantFields(provider, prevBody))
  => result = prevResult

\* C4 witness: a retried twilio delivery that differs from the first one only
\* outside the relevant fields and gets the same identifier.
C4_Witness ==
  /\ provider = "twilio"
  /\ Retried
  /\ body # prevBody
  /\ RelevantFields(provider, body) = RelevantFields(provider, prevBody)
  /\ result = Str("a")
  /\ prevResult = Str("a")

\* C5: for the composite rules (linear, jira, microsoft-teams), two deliveries
\* with different pairs that both yield an identifier yield distinct
\* identifiers.
C5_DistinctPairsDistinctIdentifiers ==
  (/\ provider \in {"linear", "jira", "microsoft-teams"}
   /\ Retried
   /\ YieldsIdentifier(result)
   /\ YieldsIdentifier(prevResult)
   /\ CompositePair(provider, body) # CompositePair(provider, prevBody))
  => result # prevResult

\* C6: for every provider name, an absent, non-structured or empty payload
\* yields Unavailable; an absent or non-structured payload is answered before
\* the table is consulted and no rule is invoked.
C6_AbsentOrEmptyIsUnavailable ==
  /\ (Delivered /\ (EarlyReturn(body) \/ IsEmptyPayload(body))) => result = Null
  /\ (Delivered /\ EarlyReturn(body)) => (~lookedUp /\ invoked = "none")

\* C7 as stated: for stripe the result is the top-level id exactly when id is
\* present and non-empty and object equals "event", and Unavailable otherwise.
C7_StripeIdWhenPresent ==
  (Delivered /\ provider = "stripe")
  => result = IF Present(Field(body, "id")) /\ Field(body, "object") = Str("event")
              THEN Field(body, "id")
              ELSE Null

\* C7 amended: for stripe the result is the top-level id exactly when id is
\* none of absent, null, "", 0 and false and object equals "event", and
\* Unavailable otherwise.
C7_StripeIdWhenTruthy ==
  (Delivered /\ provider = "stripe")
  => result = IF Field(body, "id") \notin Falsy /\ Field(body, "object") = Str("event")
              THEN Field(body, "id")
              ELSE Null

\* C7 witness: an id returned under object "event", after the same id was
\* refused under another object tag.
C7_Witness ==
  /\ provider = "stripe"
  /\ Field(body, "id") = Str("a")
  /\ Field(body, "object") = Str("event")
  /\ result = Str("a")
  /\ Retried
  /\ Field(prevBody, "id") = Str("a")
  /\ Field(prevBody, "object") = Str("charge")
  /\ prevResult = Null

\* C8: for hubspot and a top-level sequence, the empty sequence yields
\* Unavailable, a first element carrying an eventId yields the string form of
\* that eventId whatever follows it, and a first element without one yields
\* Unavailable.
C8_HubSpotFirstElementDecides ==
  (Delivered /\ provider = "hubspot" /\ IsArray(body))
  => result = IF Present(OptGet(Leading(body), "eventId"))
              THEN Str(JsString(OptGet(Leading(body), "eventId")))
              ELSE Null

\* C9 as stated: for twilio and twilio_voice, a present non-empty MessageSid is
\* returned; otherwise a present non-empty CallSid; otherwise Unavailable; and
\* both names give the same result.
C9_TwilioFirstPresentWins ==
  (Delivered /\ provider \in {"twilio", "twilio_voice"})
  => /\ result = IF Present(Field(body, "MessageSid")) THEN Field(body, "MessageSid")
                 ELSE IF Present(Field(body, "CallSid")) THEN Field(body, "CallSid")
                 ELSE Null
     /\ result = extractProviderIdentifierFromBody("twilio", body)
     /\ result = extractProviderIdentifierFromBody("twilio_voice", body)

\* C9 amended: for twilio and twilio_voice, a MessageSid that is none of
\* absent, null, "", 0 and false is returned; otherwise a CallSid that is none
\* of these; otherwise Unavailable; and both names give the same result.
C9_TwilioFirstTruthyWins ==
  (Delivered /\ provider \in {"twilio", "twilio_voice"})
  => /\ result = IF Field(body, "MessageSid") \notin Falsy THEN Field(body, "MessageSid")
                 ELSE IF Field(body, "CallSid") \notin Falsy THEN Field(body, "CallSid")
                 ELSE Null
     /\ result = extractProviderIdentifierFromBody("twilio", body)
     /\ result = extractProviderIdentifierFromBody("twilio_voice", body)

\* C9 witness: twilio_voice returns the MessageSid of a payload that carries
\* both, after returning the CallSid of a payload with an empty MessageSid.
C9_Witness ==
  /\ provider = "twilio_voice"
  /\ Field(body, "MessageSid") = Str("a")
  /\ Field(body, "CallSid") = Str("c")
  /\ result = Str("a")
  /\ Retried
  /\ Field(prevBody, "MessageSid") = Str("")
  /\ Field(prevBody, "CallSid") = Str("c")
  /\ prevResult = Str("c")

Range(q) == {q[j] : j \in 1..Len(q)}

\* A step in which a request fails the key check.
DeniedStep ==
  \E i \in Slots : requests[i].pc = "auth" /\ requests'[i].pc = "idle"

\* A step in which an authorized GET takes its sample.
SampleStep ==
  \E i \in Slots : requests[i].pc = "import" /\ requests'[i].pc = "idle"

\* A step in which an authorized POST carries out action "reset".
ResetStep ==
  \E i \in Slots :
    requests[i].pc = "json" /\ requests[i].action = "reset" /\ requests'[i].pc = "idle"

\* The list after the step is the list before it with one new sample at the
\* end and, when it was full, without its oldest.
AppendedOne ==
  LET n == Len(memorySamples)
      m == Len(memorySamples')
  IN /\ m = IF n < MAX_SAMPLES THEN n + 1 ELSE MAX_SAMPLES
     /\ memorySamples'[m] \notin Range(memorySamples)
     /\ \A j \in 1..(m - 1) : memorySamples'[j] = memorySamples[j + (n + 1 - m)]

\* C10: at most MAX_SAMPLES samples are ever retained; an authorized GET
\* appends exactly one sample and drops the oldest in the same step when the
\* count would exceed MAX_SAMPLES; a request failing the key check changes no
\* sample; an authorized POST "reset" leaves no sample.
C10_SamplesBounded ==
  /\ [](Len(memorySamples) <= MAX_SAMPLES)
  /\ [][SampleStep => AppendedOne]_vars
  /\ [][DeniedStep => memorySamples' = memorySamples]_vars
  /\ [][ResetStep => memorySamples' = <<>>]_vars

\* C10 witness: the list is full and its oldest sample is no longer the first
\* one taken, while another GET is about to take its sample.
C10_Witness ==
  /\ Len(memorySamples) = MAX_SAMPLES
  /\ memorySamples[1].timestamp > 1
  /\ \E i \in Slots : requests[i].pc = "import"

====
